---- MODULE Spec2Model ----
(***************************************************************************)
(* Blink Engine: the SOS event lifecycle (services/sos.service.ts over     *)
(* repositories/sos.repository.ts) and the refresh-token rotation          *)
(* (services/auth.service.ts over the refresh-token repository), as two    *)
(* state machines over the two tables they own.  Request handlers run      *)
(* concurrently: every await of a handler is one atomic step, and between  *)
(* two steps of one handler any step of another handler may happen.        *)
(***************************************************************************)
EXTENDS Integers, Sequences, FiniteSets, TLC

VARIABLES
    now,            \* the wall clock, in seconds (Date.now(), new Date())
    sosEvents,      \* table sos_events: a sequence of rows, a row's id is its index
    auditLogs,      \* table audit_logs: the external audit records, in order of insert
    contacts,       \* table contacts
    users,          \* table users: the ids of the stored rows
    sosPc,          \* per handler: the await an SOS request is at
    sosCall,        \* per handler: the request's parameters and local variables
    sosResult,      \* per handler: what the request returned or threw
    sosCalls,       \* the number of SOS requests received so far
    refreshTokens,  \* table refresh_tokens: a set of rows
    nextTokenId,    \* the next row id of refresh_tokens
    nextFamily,     \* the next value of randomUUID() for a token family
    issued,         \* every refresh credential ever handed to a client
    authPc,         \* per handler: the await a refresh request is at
    authCall,       \* per handler: the request's parameters and local variables
    authResult,     \* per handler: what the request returned or threw
    authCalls,      \* the number of refresh requests received so far
    rotated,        \* history: the refresh credentials a rotation has succeeded on
    securityPersonnel, \* table security_personnel: the status of each row
    claimPc,        \* per security personnel: the statement a claimAlert call is at
    claimCall,      \* per security personnel: the call's alert id and its result
    otpStore,       \* the in-memory map of the OTP service: identifier -> record
    otpSent,        \* history: per identifier the code sendOtp issued last, and whether
                    \* a verification has used it up
    otpResult       \* what the verifyOtp call being answered has returned

sosVars == <<sosEvents, auditLogs, contacts, users, sosPc, sosCall, sosResult, sosCalls>>
authVars == <<refreshTokens, nextTokenId, nextFamily, issued, authPc, authCall, authResult,
             authCalls, rotated>>
securityVars == <<securityPersonnel, claimPc, claimCall>>
otpVars == <<otpStore, otpSent, otpResult>>
vars == <<now, sosEvents, auditLogs, contacts, users, sosPc, sosCall, sosResult, sosCalls,
          refreshTokens, nextTokenId, nextFamily, issued, authPc, authCall, authResult,
          authCalls, rotated, securityPersonnel, claimPc, claimCall, otpStore, otpSent,
          otpResult>>

----------------------------------------------------------------------------
(* Bounds of the model *)

MaxTime == 3
RefreshTtl == 2
MaxAuthCalls == 2
MaxEvents == 2
MaxSosCalls == 3

Procs == {"p1", "p2"}
Users == {"u1", "u2"}
Families == {1, 2}
NoKey == "none"
Keys == {"k1"}
Lats == {37}
Lngs == {-122}
Personnel == {"s1", "s2"}
DispatchStatuses == {"on_way", "arrived"}
NoTime == -1

\* the result of a claimAlert call that has not returned
NoClaim == [alert |-> 0, result |-> "none"]

\* the identifiers (email or phone) codes are sent to, and the codes generateRandomCode
\* can draw
Identifiers == {"a", "b"}
Codes == {1, 2}
\* OTP_TTL_MINUTES, in ticks of the clock
OtpTtl == 1
\* otpStore.get(identifier) of an identifier the map has no entry for
NoOtp == [code |-> 0, expiresAt |-> NoTime]
\* no code has been issued for the identifier yet
NoSent == [code |-> 0, expiresAt |-> NoTime, spent |-> FALSE]
\* no verifyOtp call is being answered
NoVerify == [identifier |-> "none", code |-> 0, success |-> FALSE, message |-> "none"]

----------------------------------------------------------------------------
(* Results of a service call: Result<T, DomainError>, or a thrown error *)

NoEvent ==
    [id |-> 0, userId |-> "none", status |-> "none", idempotencyKey |-> NoKey,
     triggeredAt |-> NoTime, cancelledAt |-> NoTime, resolvedAt |-> NoTime,
     latitude |-> 0, longitude |-> 0, notifiedContacts |-> {}, auditLog |-> <<>>,
     securityResponderId |-> "none", securityStatus |-> "none"]

NoResult == [kind |-> "none", code |-> "none", event |-> NoEvent, rows |-> <<>>]
ok(e) == [kind |-> "ok", code |-> "none", event |-> e, rows |-> <<>>]
okRows(rows) == [kind |-> "ok", code |-> "none", event |-> NoEvent, rows |-> rows]
fail(c) == [kind |-> "fail", code |-> c, event |-> NoEvent, rows |-> <<>>]
threw(c) == [kind |-> "threw", code |-> c, event |-> NoEvent, rows |-> <<>>]

SosAlreadyActiveError == "SOS_ALREADY_ACTIVE"
SosNotActiveError == "SOS_NOT_ACTIVE"
UniqueViolation == "P2002"
ForeignKeyViolation == "P2003"
RecordNotFound == "P2025"
AuditWriteError == "AUDIT_WRITE_FAILED"

----------------------------------------------------------------------------
(* The contact directory *)

InitContacts ==
    { [id |-> "c1", userId |-> "u1", contactUserId |-> "u2", isPrimary |-> TRUE],
      [id |-> "c2", userId |-> "u1", contactUserId |-> "none", isPrimary |-> TRUE],
      [id |-> "c3", userId |-> "u2", contactUserId |-> "u1", isPrimary |-> FALSE] }

findPrimaryByUserId(cs, userId) == {c \in cs : c.userId = userId /\ c.isPrimary}

getContactsWithUser(cs, userId) == {c \in cs : c.userId = userId}

recipientIds(cs) == {c.contactUserId : c \in {d \in cs : d.contactUserId # "none"}}

\* contacts in the order of their createdAt
createdOrder == <<"c1", "c2", "c3">>

createdRank(id) == CHOOSE i \in 1..Len(createdOrder) : createdOrder[i] = id

\* findAllByUserId: orderBy isPrimary desc, createdAt asc; the first row of the result
firstByUserId(cs, userId) ==
    LET mine == {c \in cs : c.userId = userId}
        best == IF \E c \in mine : c.isPrimary THEN {c \in mine : c.isPrimary} ELSE mine
    IN {c \in best : \A o \in best : createdRank(c.id) <= createdRank(o.id)}

\* contactService.deleteContact(userId, contactId) on a contact the user owns: the row
\* is deleted, and when it was primary the first remaining contact is made primary
deleteContact(cs, contact) ==
    LET rest == cs \ {contact}
        promoted == firstByUserId(rest, contact.userId)
    IN IF contact.isPrimary
       THEN {IF c \in promoted THEN [c EXCEPT !.isPrimary = TRUE] ELSE c : c \in rest}
       ELSE rest

----------------------------------------------------------------------------
(* repositories/sos.repository.ts *)

\* the ids of the stored rows; a deleted row leaves its id unused for ever
EventIds(events) == {i \in 1..Len(events) : events[i].id # 0}

\* mutants of findActiveByUserId: the status literal misspelt; the status filter left out
findActiveWrongStatus(events, userId) ==
    {i \in EventIds(events) : events[i].userId = userId /\ events[i].status = "ACTIVE"}

findActiveAnyStatus(events, userId) ==
    {i \in EventIds(events) : events[i].userId = userId}

findActiveByUserId(events, userId) ==
    {i \in EventIds(events) : events[i].userId = userId /\ events[i].status = "active"}

\* mutant of findByIdempotencyKey: only active events are looked up
findByIdempotencyKeyActiveOnly(events, key) ==
    {i \in EventIds(events) : events[i].idempotencyKey = key /\ events[i].status = "active"}

findByIdempotencyKey(events, key) ==
    {i \in EventIds(events) : events[i].idempotencyKey = key}

\* the rows of findAllByUserId as a set: the user's events, the HistoryLimit newest
HistoryLimit == 50

getSosHistory(events, userId) ==
    LET mine == {i \in EventIds(events) : events[i].userId = userId}
        kept == IF Cardinality(mine) <= HistoryLimit THEN mine
                ELSE CHOOSE S \in SUBSET mine :
                        /\ Cardinality(S) = HistoryLimit
                        /\ \A a \in S, b \in mine \ S :
                              events[a].triggeredAt >= events[b].triggeredAt
    IN {events[i] : i \in kept}

\* the orders in which a query without a (total) orderBy may return the rows of a set
orderings(S) ==
    {s \in [1..Cardinality(S) -> S] : \A a, b \in 1..Cardinality(S) : a # b => s[a] # s[b]}

firstRows(s, take) == SubSeq(s, 1, IF take < Len(s) THEN take ELSE Len(s))

\* mutant of findAllByUserId: orderBy triggeredAt asc
findAllByUserIdAscending(events, userId, take) ==
    LET mine == {i \in EventIds(events) : events[i].userId = userId}
        sorted == {s \in orderings(mine) : \A k \in 1..(Len(s) - 1) :
                      events[s[k]].triggeredAt <= events[s[k + 1]].triggeredAt}
    IN {[k \in 1..Len(firstRows(s, take)) |-> events[s[k]]] : s \in sorted}

\* findAllByUserId: findMany({where: {userId}, orderBy: {triggeredAt: 'desc'}, take});
\* every result the query may return (rows of equal triggeredAt come in any order)
findAllByUserId(events, userId, take) ==
    LET mine == {i \in EventIds(events) : events[i].userId = userId}
        sorted == {s \in orderings(mine) : \A k \in 1..(Len(s) - 1) :
                      events[s[k]].triggeredAt >= events[s[k + 1]].triggeredAt}
    IN {[k \in 1..Len(firstRows(s, take)) |-> events[s[k]]] : s \in sorted}

\* mutant of findActiveByUserIds: the userId filter left out
findActiveOfAnyUser(events, userIds) ==
    {i \in EventIds(events) : events[i].status = "active"}

\* findActiveByUserIds: findMany({where: {userId: {in: userIds}, status: 'active'}})
findActiveByUserIds(events, userIds) ==
    {i \in EventIds(events) : events[i].userId \in userIds /\ events[i].status = "active"}

\* the unique index sos_events_idempotencyKey_key: NULL keys never collide
createViolatesUnique(events, key) ==
    key # NoKey /\ findByIdempotencyKey(events, key) # {}

createRow(events, userId, lat, lng, key, notified, auditLog, t) ==
    [id |-> Len(events) + 1, userId |-> userId, status |-> "active",
     idempotencyKey |-> key, triggeredAt |-> t, cancelledAt |-> NoTime,
     resolvedAt |-> NoTime, latitude |-> lat, longitude |-> lng,
     notifiedContacts |-> notified, auditLog |-> auditLog,
     securityResponderId |-> "none", securityStatus |-> "none"]

\* mutant of cancelRow: the update also restamps triggeredAt
cancelRowRestamps(row, currentAuditLog, t) ==
    [row EXCEPT !.status = "cancelled", !.cancelledAt = t, !.triggeredAt = t,
                !.auditLog = Append(currentAuditLog, [action |-> "CANCELLED", timestamp |-> t])]

\* mutant of resolveRow: the new entry is put in front of the log
resolveRowPrepends(row, currentAuditLog, t) ==
    [row EXCEPT !.status = "resolved", !.resolvedAt = t,
                !.auditLog = <<[action |-> "RESOLVED", timestamp |-> t]>> \o currentAuditLog]

cancelRow(row, currentAuditLog, t) ==
    [row EXCEPT !.status = "cancelled", !.cancelledAt = t,
                !.auditLog = Append(currentAuditLog, [action |-> "CANCELLED", timestamp |-> t])]

resolveRow(row, currentAuditLog, t) ==
    [row EXCEPT !.status = "resolved", !.resolvedAt = t,
                !.auditLog = Append(currentAuditLog, [action |-> "RESOLVED", timestamp |-> t])]

----------------------------------------------------------------------------
(* services/sos.service.ts: the handlers, one action per await *)

NoCall ==
    [op |-> "none", userId |-> "none", key |-> NoKey, lat |-> 0, lng |-> 0,
     notified |-> {}, target |-> 0, readLog |-> <<>>, event |-> NoEvent,
     delivery |-> "none", sentTo |-> {}, circle |-> {}]

SosInFlightTriggers ==
    Cardinality({p \in Procs : sosPc[p] \in {"t_key", "t_active", "t_contacts", "t_create"}})

sosFinish(p, r) ==
    /\ sosPc' = [sosPc EXCEPT ![p] = "done"]
    /\ sosResult' = [sosResult EXCEPT ![p] = r]

sosGoto(p, label) ==
    /\ sosPc' = [sosPc EXCEPT ![p] = label]
    /\ UNCHANGED sosResult

\* POST /v1/sos/trigger arrives: triggerSos(userId, {latitude, longitude, idempotencyKey})
TriggerCall(p) ==
    /\ sosPc[p] = "idle"
    /\ sosCalls < MaxSosCalls
    /\ Len(sosEvents) + SosInFlightTriggers < MaxEvents
    /\ sosCalls' = sosCalls + 1
    /\ \E u \in Users, k \in Keys \cup {NoKey}, lat \in Lats, lng \in Lngs :
          /\ sosCall' = [sosCall EXCEPT ![p] =
                [NoCall EXCEPT !.op = "trigger", !.userId = u, !.key = k,
                               !.lat = lat, !.lng = lng]]
          /\ sosPc' = [sosPc EXCEPT ![p] = IF k # NoKey THEN "t_key" ELSE "t_active"]
    /\ UNCHANGED <<now, sosEvents, auditLogs, contacts, users, sosResult>>
    /\ UNCHANGED authVars
    /\ UNCHANGED <<securityVars, otpVars>>

\* await sosRepository.findByIdempotencyKey(key); an existing event is returned as it is
TriggerCheckKey(p) ==
    /\ sosPc[p] = "t_key"
    /\ LET hit == findByIdempotencyKey(sosEvents, sosCall[p].key) IN
          IF hit # {}
          THEN \E i \in hit : sosFinish(p, ok(sosEvents[i]))
          ELSE sosGoto(p, "t_active")
    /\ UNCHANGED <<now, sosEvents, auditLogs, contacts, users, sosCall, sosCalls>>
    /\ UNCHANGED authVars
    /\ UNCHANGED <<securityVars, otpVars>>

\* await sosRepository.findActiveByUserId(userId)
TriggerCheckActive(p) ==
    /\ sosPc[p] = "t_active"
    /\ IF findActiveByUserId(sosEvents, sosCall[p].userId) # {}
       THEN sosFinish(p, fail(SosAlreadyActiveError))
       ELSE sosGoto(p, "t_contacts")
    /\ UNCHANGED <<now, sosEvents, auditLogs, contacts, users, sosCall, sosCalls>>
    /\ UNCHANGED authVars
    /\ UNCHANGED <<securityVars, otpVars>>

\* await contactService.getPrimaryContacts(userId)
TriggerReadContacts(p) ==
    /\ sosPc[p] = "t_contacts"
    /\ sosCall' = [sosCall EXCEPT ![p].notified =
          {c.id : c \in findPrimaryByUserId(contacts, sosCall[p].userId)}]
    /\ sosGoto(p, "t_create")
    /\ UNCHANGED <<now, sosEvents, auditLogs, contacts, users, sosCalls>>
    /\ UNCHANGED authVars
    /\ UNCHANGED <<securityVars, otpVars>>

\* await sosRepository.create(...): the insert, or the unique index's P2002, or the
\* foreign key's P2003 when the user's row is gone
TriggerCreate(p) ==
    /\ sosPc[p] = "t_create"
    /\ LET c == sosCall[p]
           row == createRow(sosEvents, c.userId, c.lat, c.lng, c.key, c.notified,
                            <<[action |-> "TRIGGERED", timestamp |-> now]>>, now)
       IN IF createViolatesUnique(sosEvents, c.key)
          THEN /\ sosFinish(p, threw(UniqueViolation))
               /\ UNCHANGED <<sosEvents, sosCall>>
          ELSE IF c.userId \notin users
          THEN /\ sosFinish(p, threw(ForeignKeyViolation))
               /\ UNCHANGED <<sosEvents, sosCall>>
          ELSE /\ sosEvents' = Append(sosEvents, row)
               /\ sosCall' = [sosCall EXCEPT ![p].event = row]
               /\ sosGoto(p, "t_audit")
    /\ UNCHANGED <<now, auditLogs, contacts, users, sosCalls>>
    /\ UNCHANGED authVars
    /\ UNCHANGED <<securityVars, otpVars>>

auditAction(op) ==
    CASE op = "trigger" -> "SOS_TRIGGERED"
      [] op = "cancel" -> "SOS_CANCELLED"
      [] OTHER -> "SOS_RESOLVED"

auditRecord(c) ==
    [userId |-> c.userId, action |-> auditAction(c.op), resourceId |-> c.event.id]

TriggerAudit(p) ==
    /\ sosPc[p] = "t_audit"
    /\ \/ /\ auditLogs' = Append(auditLogs, auditRecord(sosCall[p]))
          /\ sosGoto(p, "t_notify")
       \/ /\ sosFinish(p, threw(AuditWriteError))
          /\ UNCHANGED auditLogs
    /\ UNCHANGED <<now, sosEvents, contacts, users, sosCall, sosCalls>>
    /\ UNCHANGED authVars
    /\ UNCHANGED <<securityVars, otpVars>>

\* the recipients of the socket message 'sos:alert': the linked contacts the
\* directory returns at this moment
alertRecipients(cs, userId) == recipientIds(getContactsWithUser(cs, userId))

\* socketService.emitToUsers(recipientIds, 'sos:alert', ...), reached only with a
\* non-empty recipient list; the call records what it handed to the socket layer
emitToUsers(c, to) ==
    IF to # {} THEN [c EXCEPT !.delivery = "emitted", !.sentTo = to]
               ELSE [c EXCEPT !.delivery = "skipped"]

\* mutant of notify: no try/catch around the delivery, the error reaches the caller
notifyUncaught(p, next) ==
    \/ /\ sosCall' = [sosCall EXCEPT ![p] =
                emitToUsers(sosCall[p], alertRecipients(contacts, sosCall[p].userId))]
       /\ next
    \/ /\ sosCall' = [sosCall EXCEPT ![p].delivery = "failed"]
       /\ sosPc' = [sosPc EXCEPT ![p] = "done"]
       /\ sosResult' = [sosResult EXCEPT ![p] = threw("DELIVERY_FAILED")]

\* try { getContactsWithUser; emitToUsers } catch { logger.error }: the lookup or the
\* emit may throw, and the catch swallows it
notify(p, next) ==
    /\ \/ sosCall' = [sosCall EXCEPT ![p] =
                emitToUsers(sosCall[p], alertRecipients(contacts, sosCall[p].userId))]
       \/ sosCall' = [sosCall EXCEPT ![p].delivery = "failed"]
    /\ next

TriggerNotify(p) ==
    /\ sosPc[p] = "t_notify"
    /\ notify(p, sosFinish(p, ok(sosCall[p].event)))
    /\ UNCHANGED <<now, sosEvents, auditLogs, contacts, users, sosCalls>>
    /\ UNCHANGED authVars
    /\ UNCHANGED <<securityVars, otpVars>>

\* POST /v1/sos/cancel or /v1/sos/resolve arrives: cancelSos(userId), resolveSos(userId)
EndCall(p) ==
    /\ sosPc[p] = "idle"
    /\ sosCalls < MaxSosCalls
    /\ sosCalls' = sosCalls + 1
    /\ \E u \in Users, o \in {"cancel", "resolve"} :
          sosCall' = [sosCall EXCEPT ![p] = [NoCall EXCEPT !.op = o, !.userId = u]]
    /\ sosGoto(p, "e_find")
    /\ UNCHANGED <<now, sosEvents, auditLogs, contacts, users>>
    /\ UNCHANGED authVars
    /\ UNCHANGED <<securityVars, otpVars>>

\* await sosRepository.findActiveByUserId(userId): findFirst returns any matching row
EndFindActive(p) ==
    /\ sosPc[p] = "e_find"
    /\ LET active == findActiveByUserId(sosEvents, sosCall[p].userId) IN
          IF active = {}
          THEN /\ sosFinish(p, fail(SosNotActiveError))
               /\ UNCHANGED sosCall
          ELSE /\ \E i \in active : sosCall' = [sosCall EXCEPT ![p].target = i]
               /\ sosGoto(p, "e_read")
    /\ UNCHANGED <<now, sosEvents, auditLogs, contacts, users, sosCalls>>
    /\ UNCHANGED authVars
    /\ UNCHANGED <<securityVars, otpVars>>

\* sosRepository.cancel / resolve, first await: findUnique({id}) reads the audit log,
\* and a row that is gone reads as the empty log (existing?.auditLog || [])
EndReadRow(p) ==
    /\ sosPc[p] = "e_read"
    /\ sosCall' = [sosCall EXCEPT ![p].readLog =
          IF sosCall[p].target \in EventIds(sosEvents)
          THEN sosEvents[sosCall[p].target].auditLog ELSE <<>>]
    /\ sosGoto(p, "e_update")
    /\ UNCHANGED <<now, sosEvents, auditLogs, contacts, users, sosCalls>>
    /\ UNCHANGED authVars
    /\ UNCHANGED <<securityVars, otpVars>>

\* sosRepository.cancel / resolve, second await: update({where: {id}}), whatever the
\* row's status is by now; P2025 when the row is gone
EndUpdateRow(p) ==
    /\ sosPc[p] = "e_update"
    /\ LET c == sosCall[p]
           row == IF c.op = "cancel"
                  THEN cancelRow(sosEvents[c.target], c.readLog, now)
                  ELSE resolveRow(sosEvents[c.target], c.readLog, now)
       IN IF c.target \in EventIds(sosEvents)
          THEN /\ sosEvents' = [sosEvents EXCEPT ![c.target] = row]
               /\ sosCall' = [sosCall EXCEPT ![p].event = row]
               /\ sosGoto(p, "e_notify")
          ELSE /\ sosFinish(p, threw(RecordNotFound))
               /\ UNCHANGED <<sosEvents, sosCall>>
    /\ UNCHANGED <<now, auditLogs, contacts, users, sosCalls>>
    /\ UNCHANGED authVars
    /\ UNCHANGED <<securityVars, otpVars>>

EndNotify(p) ==
    /\ sosPc[p] = "e_notify"
    /\ notify(p, sosGoto(p, "e_audit"))
    /\ UNCHANGED <<now, sosEvents, auditLogs, contacts, users, sosCalls>>
    /\ UNCHANGED authVars
    /\ UNCHANGED <<securityVars, otpVars>>

\* await auditRepository.create(...), then return ok(cancelledSos)
EndAudit(p) ==
    /\ sosPc[p] = "e_audit"
    /\ \/ /\ auditLogs' = Append(auditLogs, auditRecord(sosCall[p]))
          /\ sosFinish(p, ok(sosCall[p].event))
       \/ /\ sosFinish(p, threw(AuditWriteError))
          /\ UNCHANGED auditLogs
    /\ UNCHANGED <<now, sosEvents, contacts, users, sosCall, sosCalls>>
    /\ UNCHANGED authVars
    /\ UNCHANGED <<securityVars, otpVars>>

\* the controller has sent the response; the handler is free for the next request
SosReturn(p) ==
    /\ sosPc[p] = "done"
    /\ sosPc' = [sosPc EXCEPT ![p] = "idle"]
    /\ sosCall' = [sosCall EXCEPT ![p] = NoCall]
    /\ sosResult' = [sosResult EXCEPT ![p] = NoResult]
    /\ UNCHANGED <<now, sosEvents, auditLogs, contacts, users, sosCalls>>
    /\ UNCHANGED authVars
    /\ UNCHANGED <<securityVars, otpVars>>

\* GET /v1/sos/active: getActiveSos(userId), one await; findFirst returns any matching
\* row, or null
GetActive(p) ==
    /\ sosPc[p] = "idle"
    /\ \E u \in Users :
          /\ sosCall' = [sosCall EXCEPT ![p] = [NoCall EXCEPT !.op = "getActive", !.userId = u]]
          /\ LET active == findActiveByUserId(sosEvents, u) IN
                IF active = {}
                THEN sosFinish(p, ok(NoEvent))
                ELSE \E i \in active : sosFinish(p, ok(sosEvents[i]))
    /\ UNCHANGED <<now, sosEvents, auditLogs, contacts, users, sosCalls>>
    /\ UNCHANGED authVars
    /\ UNCHANGED <<securityVars, otpVars>>

\* GET /v1/sos/history: getSosHistory(userId), one await
GetHistory(p) ==
    /\ sosPc[p] = "idle"
    /\ \E u \in Users :
          /\ sosCall' = [sosCall EXCEPT ![p] = [NoCall EXCEPT !.op = "getHistory", !.userId = u]]
          /\ \E rows \in findAllByUserId(sosEvents, u, HistoryLimit) :
                sosFinish(p, okRows(rows))
    /\ UNCHANGED <<now, sosEvents, auditLogs, contacts, users, sosCalls>>
    /\ UNCHANGED authVars
    /\ UNCHANGED <<securityVars, otpVars>>

\* GET /v1/sos/circle: getCircleSosStatus(userId), first await: the contacts with a
\* linked user; without any the call returns ok([])
CircleCall(p) ==
    /\ sosPc[p] = "idle"
    /\ \E u \in Users :
          LET contactUserIds == recipientIds(getContactsWithUser(contacts, u)) IN
             /\ sosCall' = [sosCall EXCEPT ![p] =
                   [NoCall EXCEPT !.op = "getCircle", !.userId = u, !.circle = contactUserIds]]
             /\ IF contactUserIds = {}
                THEN sosFinish(p, okRows(<<>>))
                ELSE sosGoto(p, "c_find")
    /\ UNCHANGED <<now, sosEvents, auditLogs, contacts, users, sosCalls>>
    /\ UNCHANGED authVars
    /\ UNCHANGED <<securityVars, otpVars>>

circleStatus(sos) ==
    [contactUserId |-> sos.userId, isActive |-> TRUE, triggeredAt |-> sos.triggeredAt,
     latitude |-> sos.latitude, longitude |-> sos.longitude]

\* getCircleSosStatus, second await: findActiveByUserIds(contactUserIds), mapped to the
\* circle status entries
CircleFind(p) ==
    /\ sosPc[p] = "c_find"
    /\ \E s \in orderings(findActiveByUserIds(sosEvents, sosCall[p].circle)) :
          sosFinish(p, okRows([k \in 1..Len(s) |-> circleStatus(sosEvents[s[k]])]))
    /\ UNCHANGED <<now, sosEvents, auditLogs, contacts, users, sosCall, sosCalls>>
    /\ UNCHANGED authVars
    /\ UNCHANGED <<securityVars, otpVars>>

----------------------------------------------------------------------------
(* middleware/auth.middleware.ts: the refresh credential is a JWT over             *)
(* {sub, family, iat, exp}; the same claims in the same second sign to the same    *)
(* string                                                                          *)

NoToken == [sub |-> "none", family |-> 0, iat |-> 0, exp |-> 0]
Malformed == [sub |-> "bad", family |-> 0, iat |-> 0, exp |-> 0]

TokenExpiredError == "AUTH_TOKEN_EXPIRED"
TokenInvalidError == "AUTH_TOKEN_INVALID"

generateRefreshToken(userId, family, t) ==
    [sub |-> userId, family |-> family, iat |-> t, exp |-> t + RefreshTtl]

\* jwt.verify: a bad signature or structure, then the exp claim against the clock
verifyRefreshToken(signed, token, t) ==
    IF token \notin signed THEN TokenInvalidError
    ELSE IF t >= token.exp THEN TokenExpiredError
    ELSE "ok"

RefreshTokenRevokedError == "AUTH_REFRESH_TOKEN_REVOKED"

\* the retryable flag the error handler sends with an error: the domain error's own,
\* and true for every error that is not a domain error (INTERNAL_ERROR)
retryable(code) ==
    CASE code = TokenExpiredError -> TRUE
      [] code = TokenInvalidError -> FALSE
      [] code = RefreshTokenRevokedError -> FALSE
      [] OTHER -> TRUE

NoRow == [id |-> 0, token |-> NoToken, userId |-> "none", family |-> 0,
          expiresAt |-> 0, revoked |-> FALSE]

NoAuthResult == [kind |-> "none", code |-> "none", token |-> NoToken]
authOk(tok) == [kind |-> "ok", code |-> "none", token |-> tok]
authFail(c) == [kind |-> "fail", code |-> c, token |-> NoToken]
authThrew(c) == [kind |-> "threw", code |-> c, token |-> NoToken]

----------------------------------------------------------------------------
(* the refresh-token repository *)

findByToken(rows, token) == {r \in rows : r.token = token}

createTokenViolatesUnique(rows, token) == findByToken(rows, token) # {}

\* mutant of createTokenRow: the insert also revokes the user's other rows
createTokenRowSingleSession(rows, id, token, userId, family, expiresAt) ==
    {IF r.userId = userId THEN [r EXCEPT !.revoked = TRUE] ELSE r : r \in rows}
       \cup {[id |-> id, token |-> token, userId |-> userId, family |-> family,
                expiresAt |-> expiresAt, revoked |-> FALSE]}

createTokenRow(rows, id, token, userId, family, expiresAt) ==
    rows \cup {[id |-> id, token |-> token, userId |-> userId, family |-> family,
                expiresAt |-> expiresAt, revoked |-> FALSE]}

\* mutant of revoke: the presented row is left as it is
revokeNothing(rows, id) == rows

revoke(rows, id) ==
    {IF r.id = id THEN [r EXCEPT !.revoked = TRUE] ELSE r : r \in rows}

\* mutant of revokeFamily: every row of the family's user is revoked
revokeFamilyWholeUser(rows, family) ==
    LET owners == {r.userId : r \in {o \in rows : o.family = family}} IN
    {IF r.userId \in owners THEN [r EXCEPT !.revoked = TRUE] ELSE r : r \in rows}

revokeFamily(rows, family) ==
    {IF r.family = family THEN [r EXCEPT !.revoked = TRUE] ELSE r : r \in rows}

revokeAllForUser(rows, userId) ==
    {IF r.userId = userId THEN [r EXCEPT !.revoked = TRUE] ELSE r : r \in rows}

\* mutant of deleteExpired: a row that expires at this very moment is deleted too
deleteExpiredInclusive(rows, t) == {r \in rows : ~(r.expiresAt <= t \/ r.revoked)}

deleteExpired(rows, t) == {r \in rows : ~(r.expiresAt < t \/ r.revoked)}

----------------------------------------------------------------------------
(* services/auth.service.ts *)

\* replay and logoutSeen record history: the credential had been rotated before the
\* call began; the subject logged out while the call was in flight
NoAuthCall == [op |-> "none", token |-> NoToken, stored |-> NoRow, didRevoke |-> FALSE,
               replay |-> FALSE, logoutSeen |-> FALSE]

authFinish(p, r) ==
    /\ authPc' = [authPc EXCEPT ![p] = "done"]
    /\ authResult' = [authResult EXCEPT ![p] = r]

authGoto(p, label) ==
    /\ authPc' = [authPc EXCEPT ![p] = label]
    /\ UNCHANGED authResult

\* refreshTokens(refreshToken) run to its end with no other request in between, at
\* second t: the error code (or "ok") and the rows it leaves
refreshTokensAlone(rows, signed, id, tok, t) ==
    LET v == verifyRefreshToken(signed, tok, t)
        found == findByToken(rows, tok)
        stored == CHOOSE r \in found : TRUE
        next == generateRefreshToken(tok.sub, stored.family, t)
        revoked == revoke(rows, stored.id)
    IN IF v # "ok" THEN [code |-> v, rows |-> rows]
       ELSE IF found = {} THEN [code |-> RefreshTokenRevokedError, rows |-> rows]
       ELSE IF stored.revoked
            THEN [code |-> RefreshTokenRevokedError, rows |-> revokeFamily(rows, stored.family)]
       ELSE IF stored.expiresAt < t THEN [code |-> RefreshTokenRevokedError, rows |-> rows]
       ELSE IF createTokenViolatesUnique(revoked, next)
            THEN [code |-> UniqueViolation, rows |-> revoked]
       ELSE [code |-> "ok",
             rows |-> createTokenRow(revoked, id, next, tok.sub, stored.family, t + RefreshTtl)]

\* createTokens(userId, email) at the end of register and login: a new family
Issue ==
    /\ nextFamily \in Families
    /\ \E u \in Users :
          LET tok == generateRefreshToken(u, nextFamily, now) IN
             /\ refreshTokens' = createTokenRow(refreshTokens, nextTokenId, tok, u,
                                                nextFamily, now + RefreshTtl)
             /\ issued' = issued \cup {tok}
    /\ nextTokenId' = nextTokenId + 1
    /\ nextFamily' = nextFamily + 1
    /\ UNCHANGED <<now, authPc, authCall, authResult, rotated, authCalls>>
    /\ UNCHANGED sosVars
    /\ UNCHANGED <<securityVars, otpVars>>

\* POST /v1/auth/refresh arrives: refreshTokens(refreshToken) verifies the signature
\* and the exp claim before it awaits anything; a failure is thrown
RotateCall(p) ==
    /\ authPc[p] = "idle"
    /\ authCalls < MaxAuthCalls
    /\ authCalls' = authCalls + 1
    /\ \E tok \in issued \cup {Malformed} :
          LET v == verifyRefreshToken(issued, tok, now) IN
             /\ authCall' = [authCall EXCEPT ![p] =
                   [NoAuthCall EXCEPT !.op = "rotate", !.token = tok,
                                      !.replay = (tok \in rotated)]]
             /\ IF v = "ok" THEN authGoto(p, "r_find") ELSE authFinish(p, authThrew(v))
    /\ UNCHANGED <<now, refreshTokens, nextTokenId, nextFamily, issued, rotated>>
    /\ UNCHANGED sosVars
    /\ UNCHANGED <<securityVars, otpVars>>

\* await refreshTokenRepository.findByToken(refreshToken), and the checks on the row
RotateFind(p) ==
    /\ authPc[p] = "r_find"
    /\ LET found == findByToken(refreshTokens, authCall[p].token) IN
          IF found = {}
          THEN /\ authFinish(p, authFail(RefreshTokenRevokedError))
               /\ UNCHANGED authCall
          ELSE \E row \in found :
                  /\ authCall' = [authCall EXCEPT ![p].stored = row]
                  /\ IF row.revoked THEN authGoto(p, "r_breach")
                     ELSE IF row.expiresAt < now
                          THEN authFinish(p, authFail(RefreshTokenRevokedError))
                          ELSE authGoto(p, "r_revoke")
    /\ UNCHANGED <<now, refreshTokens, nextTokenId, nextFamily, issued, rotated, authCalls>>
    /\ UNCHANGED sosVars
    /\ UNCHANGED <<securityVars, otpVars>>

\* await refreshTokenRepository.revokeFamily(storedToken.family)
RotateBreach(p) ==
    /\ authPc[p] = "r_breach"
    /\ refreshTokens' = revokeFamily(refreshTokens, authCall[p].stored.family)
    /\ authFinish(p, authFail(RefreshTokenRevokedError))
    /\ UNCHANGED <<now, nextTokenId, nextFamily, issued, authCall, rotated, authCalls>>
    /\ UNCHANGED sosVars
    /\ UNCHANGED <<securityVars, otpVars>>

\* await refreshTokenRepository.revoke(storedToken.id): update({where: {id}}) throws
\* when the row is gone
RotateRevoke(p) ==
    /\ authPc[p] = "r_revoke"
    /\ IF \E r \in refreshTokens : r.id = authCall[p].stored.id
       THEN /\ refreshTokens' = revoke(refreshTokens, authCall[p].stored.id)
            /\ authCall' = [authCall EXCEPT ![p].didRevoke = TRUE]
            /\ authGoto(p, "r_create")
       ELSE /\ authFinish(p, authThrew(RecordNotFound))
            /\ UNCHANGED <<refreshTokens, authCall>>
    /\ UNCHANGED <<now, nextTokenId, nextFamily, issued, rotated, authCalls>>
    /\ UNCHANGED sosVars
    /\ UNCHANGED <<securityVars, otpVars>>

\* await userRepository.findById(payload.sub), then createTokens(user.id, user.email,
\* storedToken.family): the insert, or the unique index's P2002
RotateCreate(p) ==
    /\ authPc[p] = "r_create"
    /\ LET c == authCall[p]
           tok == generateRefreshToken(c.token.sub, c.stored.family, now)
       IN IF createTokenViolatesUnique(refreshTokens, tok)
          THEN /\ authFinish(p, authThrew(UniqueViolation))
               /\ UNCHANGED <<refreshTokens, nextTokenId, issued, rotated>>
          ELSE /\ refreshTokens' = createTokenRow(refreshTokens, nextTokenId, tok,
                                                  c.token.sub, c.stored.family,
                                                  now + RefreshTtl)
               /\ nextTokenId' = nextTokenId + 1
               /\ issued' = issued \cup {tok}
               /\ rotated' = rotated \cup {c.token}
               /\ authFinish(p, authOk(tok))
    /\ UNCHANGED <<now, nextFamily, authCall, authCalls>>
    /\ UNCHANGED sosVars
    /\ UNCHANGED <<securityVars, otpVars>>

\* POST /v1/auth/logout: logout(userId)
Logout ==
    /\ \E u \in Users :
          /\ refreshTokens' = revokeAllForUser(refreshTokens, u)
          /\ authCall' = [q \in Procs |->
                IF authPc[q] \notin {"idle", "done"} /\ authCall[q].token.sub = u
                THEN [authCall[q] EXCEPT !.logoutSeen = TRUE]
                ELSE authCall[q]]
    /\ UNCHANGED <<now, nextTokenId, nextFamily, issued, authPc, authResult, rotated, authCalls>>
    /\ UNCHANGED sosVars
    /\ UNCHANGED <<securityVars, otpVars>>

\* the cleanup job: refreshTokenRepository.deleteExpired()
Sweep ==
    /\ refreshTokens' = deleteExpired(refreshTokens, now)
    /\ UNCHANGED <<now, nextTokenId, nextFamily, issued, authPc, authCall, authResult, rotated, authCalls>>
    /\ UNCHANGED sosVars
    /\ UNCHANGED <<securityVars, otpVars>>

AuthReturn(p) ==
    /\ authPc[p] = "done"
    /\ authPc' = [authPc EXCEPT ![p] = "idle"]
    /\ authCall' = [authCall EXCEPT ![p] = NoAuthCall]
    /\ authResult' = [authResult EXCEPT ![p] = NoAuthResult]
    /\ UNCHANGED <<now, refreshTokens, nextTokenId, nextFamily, issued, rotated, authCalls>>
    /\ UNCHANGED sosVars
    /\ UNCHANGED <<securityVars, otpVars>>

\* a second of wall-clock time passes
Tick ==
    /\ now < MaxTime
    /\ now' = now + 1
    /\ UNCHANGED authVars
    /\ UNCHANGED sosVars
    /\ UNCHANGED <<securityVars, otpVars>>

----------------------------------------------------------------------------
Init ==
    /\ now = 0
    /\ sosEvents = <<>>
    /\ auditLogs = <<>>
    /\ contacts = InitContacts
    /\ users = Users
    /\ sosPc = [p \in Procs |-> "idle"]
    /\ sosCall = [p \in Procs |-> NoCall]
    /\ sosResult = [p \in Procs |-> NoResult]
    /\ sosCalls = 0
    /\ refreshTokens = {}
    /\ nextTokenId = 1
    /\ nextFamily = 1
    /\ issued = {}
    /\ authPc = [p \in Procs |-> "idle"]
    /\ authCall = [p \in Procs |-> NoAuthCall]
    /\ authResult = [p \in Procs |-> NoAuthResult]
    /\ rotated = {}
    /\ authCalls = 0
    /\ securityPersonnel = [s \in Personnel |-> "offline"]
    /\ claimPc = [s \in Personnel |-> "idle"]
    /\ claimCall = [s \in Personnel |-> NoClaim]
    /\ otpStore = [id \in Identifiers |-> NoOtp]
    /\ otpSent = [id \in Identifiers |-> NoSent]
    /\ otpResult = NoVerify

SosStep(p) ==
    \/ TriggerCall(p)
    \/ TriggerCheckKey(p)
    \/ TriggerCheckActive(p)
    \/ TriggerReadContacts(p)
    \/ TriggerCreate(p)
    \/ TriggerAudit(p)
    \/ TriggerNotify(p)
    \/ EndCall(p)
    \/ EndFindActive(p)
    \/ EndReadRow(p)
    \/ EndUpdateRow(p)
    \/ EndNotify(p)
    \/ EndAudit(p)
    \/ SosReturn(p)

SosNext == \E p \in Procs : SosStep(p)

SosSpec == Init /\ [][SosNext]_vars

\* DELETE /v1/contacts/:id: the owner removes one of their contacts
DeleteContact ==
    /\ \E c \in contacts : contacts' = deleteContact(contacts, c)
    /\ UNCHANGED <<now, sosEvents, auditLogs, users, sosPc, sosCall, sosResult, sosCalls>>
    /\ UNCHANGED authVars
    /\ UNCHANGED <<securityVars, otpVars>>

DirectoryNext ==
    \/ SosNext
    \/ DeleteContact

DirectorySpec == Init /\ [][DirectoryNext]_vars

\* userRepository.delete(id): prisma.user.delete, and the foreign keys of sos_events,
\* contacts and refresh_tokens on users are ON DELETE CASCADE
cascadeEvents(events, userId) ==
    [i \in 1..Len(events) |-> IF events[i].userId = userId THEN NoEvent ELSE events[i]]

DeleteUser ==
    /\ \E u \in users :
          /\ users' = users \ {u}
          /\ sosEvents' = cascadeEvents(sosEvents, u)
          /\ contacts' = {c \in contacts : c.userId # u}
          /\ refreshTokens' = {r \in refreshTokens : r.userId # u}
    /\ UNCHANGED <<now, auditLogs, sosPc, sosCall, sosResult, sosCalls>>
    /\ UNCHANGED <<nextTokenId, nextFamily, issued, authPc, authCall, authResult,
                   authCalls, rotated>>
    /\ UNCHANGED <<securityVars, otpVars>>

AccountNext ==
    \/ SosNext
    \/ DeleteUser

AccountSpec == Init /\ [][AccountNext]_vars

\* securityService.claimAlert(alertId, personnelId), the read of its transaction: the
\* transaction runs at the database's default isolation level, so findUnique is a plain
\* read that takes no lock; a missing, ended or claimed alert throws and the call fails
ClaimRead(s) ==
    /\ claimPc[s] = "idle"
    /\ \E i \in 1..MaxEvents :
          LET found == i \in EventIds(sosEvents)
              failure == IF ~found THEN "Alert not found"
                         ELSE IF sosEvents[i].status # "active"
                              THEN "Alert is no longer active"
                         ELSE IF sosEvents[i].securityResponderId # "none"
                              THEN "Alert already claimed"
                         ELSE "none"
          IN  IF failure # "none"
              THEN /\ claimPc' = [claimPc EXCEPT ![s] = "done"]
                   /\ claimCall' = [claimCall EXCEPT ![s] = [alert |-> i, result |-> failure]]
              ELSE /\ claimPc' = [claimPc EXCEPT ![s] = "c_write"]
                   /\ claimCall' = [claimCall EXCEPT ![s] = [alert |-> i, result |-> "none"]]
    /\ UNCHANGED <<now, securityPersonnel>>
    /\ UNCHANGED sosVars
    /\ UNCHANGED authVars
    /\ UNCHANGED otpVars

\* claimAlert, the two updates of its transaction and the commit: the event's row is
\* updated by id alone, whatever it holds by now, and the personnel row becomes 'busy'
ClaimWrite(s) ==
    /\ claimPc[s] = "c_write"
    /\ LET i == claimCall[s].alert
       IN  IF i \in EventIds(sosEvents)
           THEN /\ sosEvents' = [sosEvents EXCEPT ![i].securityResponderId = s,
                                                  ![i].securityStatus = "dispatched"]
                /\ securityPersonnel' = [securityPersonnel EXCEPT ![s] = "busy"]
                /\ claimCall' = [claimCall EXCEPT ![s].result = "ok"]
           ELSE /\ claimCall' = [claimCall EXCEPT ![s].result = RecordNotFound]
                /\ UNCHANGED <<sosEvents, securityPersonnel>>
    /\ claimPc' = [claimPc EXCEPT ![s] = "done"]
    /\ UNCHANGED <<now, auditLogs, contacts, users, sosPc, sosCall, sosResult, sosCalls>>
    /\ UNCHANGED authVars
    /\ UNCHANGED otpVars

\* securityService.updateDispatchStatus(alertId, status, personnelId): the responder of
\* an event sets its securityStatus, whatever the event's status is
UpdateDispatchStatus ==
    /\ \E i \in EventIds(sosEvents), s \in Personnel, st \in DispatchStatuses :
          /\ sosEvents[i].securityResponderId = s
          /\ sosEvents[i].securityStatus # st
          /\ sosEvents' = [sosEvents EXCEPT ![i].securityStatus = st]
    /\ UNCHANGED <<now, auditLogs, contacts, users, sosPc, sosCall, sosResult, sosCalls>>
    /\ UNCHANGED authVars
    /\ UNCHANGED <<securityVars, otpVars>>

\* otpService.sendOtp(identifier, type), its write: the map's entry for the identifier
\* is replaced by the new code, which expires OTP_TTL_MINUTES from now
sendOtp(store, identifier, code, t) ==
    [store EXCEPT ![identifier] = [code |-> code, expiresAt |-> t + OtpTtl]]

\* verifyOtp that keeps the entry of a code it has accepted
verifyOtpKeepsCode(store, identifier, code, t) ==
    LET record == store[identifier]
    IN  IF record = NoOtp
        THEN [store |-> store, success |-> FALSE, message |-> "OTP not found or expired"]
        ELSE IF t > record.expiresAt
        THEN [store |-> [store EXCEPT ![identifier] = NoOtp], success |-> FALSE,
              message |-> "OTP expired"]
        ELSE IF record.code # code
        THEN [store |-> store, success |-> FALSE, message |-> "Invalid OTP"]
        ELSE [store |-> store, success |-> TRUE, message |-> "none"]

\* otpService.verifyOtp(identifier, code) at time t: the map it leaves and its answer
verifyOtp(store, identifier, code, t) ==
    LET record == store[identifier]
    IN  IF record = NoOtp
        THEN [store |-> store, success |-> FALSE, message |-> "OTP not found or expired"]
        ELSE IF t > record.expiresAt
        THEN [store |-> [store EXCEPT ![identifier] = NoOtp], success |-> FALSE,
              message |-> "OTP expired"]
        ELSE IF record.code # code
        THEN [store |-> store, success |-> FALSE, message |-> "Invalid OTP"]
        ELSE [store |-> [store EXCEPT ![identifier] = NoOtp], success |-> TRUE,
              message |-> "none"]

\* a sendOtp call: the code is drawn and stored before the call first yields
SendOtp ==
    /\ \E id \in Identifiers, code \in Codes :
          /\ otpStore' = sendOtp(otpStore, id, code, now)
          /\ otpSent' = [otpSent EXCEPT ![id] = [code |-> code, expiresAt |-> now + OtpTtl,
                                                 spent |-> FALSE]]
    /\ UNCHANGED <<now, otpResult>>
    /\ UNCHANGED sosVars
    /\ UNCHANGED authVars
    /\ UNCHANGED securityVars

\* a verifyOtp call: it never yields, so it runs as one step
VerifyOtp ==
    /\ otpResult = NoVerify
    /\ \E id \in Identifiers, code \in Codes :
          LET r == verifyOtp(otpStore, id, code, now)
          IN  /\ otpStore' = r.store
              /\ otpResult' = [identifier |-> id, code |-> code, success |-> r.success,
                               message |-> r.message]
              /\ otpSent' = IF r.success THEN [otpSent EXCEPT ![id].spent = TRUE]
                            ELSE otpSent
    /\ UNCHANGED now
    /\ UNCHANGED sosVars
    /\ UNCHANGED authVars
    /\ UNCHANGED securityVars

\* the caller has the answer of its verifyOtp call
OtpReturn ==
    /\ otpResult # NoVerify
    /\ otpResult' = NoVerify
    /\ UNCHANGED <<now, otpStore, otpSent>>
    /\ UNCHANGED sosVars
    /\ UNCHANGED authVars
    /\ UNCHANGED securityVars

OtpNext ==
    \/ SendOtp
    \/ VerifyOtp
    \/ OtpReturn
    \/ Tick

OtpSpec == Init /\ [][OtpNext]_vars

\* the SOS handlers with the wall clock running
TimedSosNext ==
    \/ SosNext
    \/ Tick

TimedSosSpec == Init /\ [][TimedSosNext]_vars

\* one client after another: the requests of one handler, the queries among them
QueryProcs == {"p1"}

\* the security responders, each making one claim, while one client raises and ends
\* alerts
SecurityNext ==
    \/ \E p \in QueryProcs : SosStep(p)
    \/ \E s \in Personnel :
          \/ ClaimRead(s)
          \/ ClaimWrite(s)
    \/ UpdateDispatchStatus

SecuritySpec == Init /\ [][SecurityNext]_vars

\* getActiveSos and getSosHistory among the SOS requests, with the clock running
HistoryNext ==
    \/ \E p \in QueryProcs :
          \/ SosStep(p)
          \/ GetActive(p)
          \/ GetHistory(p)
    \/ Tick

HistorySpec == Init /\ [][HistoryNext]_vars

\* getCircleSosStatus among the SOS requests, with contacts being deleted
CircleNext ==
    \/ \E p \in QueryProcs :
          \/ SosStep(p)
          \/ CircleCall(p)
          \/ CircleFind(p)
    \/ DeleteContact

CircleSpec == Init /\ [][CircleNext]_vars

AuthNext ==
    \/ Tick
    \/ Issue
    \/ Logout
    \/ Sweep
    \/ \E p \in Procs :
          \/ RotateCall(p)
          \/ RotateFind(p)
          \/ RotateBreach(p)
          \/ RotateRevoke(p)
          \/ RotateCreate(p)
          \/ AuthReturn(p)

AuthSpec == Init /\ [][AuthNext]_vars

\* the client that keeps to the protocol: it presents the newest credential issued in
\* its family, and starts no refresh while another of the same family is in flight
newestOfFamily(f) ==
    {t \in issued : t.family = f /\ \A o \in issued : o.family = f => o.iat <= t.iat}

ClientRotateCall(p) ==
    /\ RotateCall(p)
    /\ authCall'[p].token \in newestOfFamily(authCall'[p].token.family)
    /\ \A q \in Procs \ {p} :
          authPc[q] \in {"idle", "done"} \/ authCall[q].token.family # authCall'[p].token.family

ClientNext ==
    \/ Tick
    \/ Issue
    \/ Logout
    \/ Sweep
    \/ \E p \in Procs :
          \/ ClientRotateCall(p)
          \/ RotateFind(p)
          \/ RotateBreach(p)
          \/ RotateRevoke(p)
          \/ RotateCreate(p)
          \/ AuthReturn(p)

ClientSpec == Init /\ [][ClientNext]_vars

\* the same clients when nobody logs out
LoyalClientNext ==
    \/ Tick
    \/ Issue
    \/ Sweep
    \/ \E p \in Procs :
          \/ ClientRotateCall(p)
          \/ RotateFind(p)
          \/ RotateBreach(p)
          \/ RotateRevoke(p)
          \/ RotateCreate(p)
          \/ AuthReturn(p)

LoyalClientSpec == Init /\ [][LoyalClientNext]_vars

----------------------------------------------------------------------------
(* The claims about the SOS event lifecycle, checked under SosSpec and DirectorySpec *)

ActiveEventsOf(u) ==
    {i \in 1..Len(sosEvents) : sosEvents[i].userId = u /\ sosEvents[i].status = "active"}

EventsWithKey(k) ==
    {i \in 1..Len(sosEvents) : sosEvents[i].idempotencyKey = k}

\* C1: in every reachable state, whatever the interleaving of the trigger calls, at most
\* one stored event of a subject has status active.
C1_AtMostOneActivePerSubject ==
    \A u \in Users : Cardinality(ActiveEventsOf(u)) <= 1

\* C4: once a stored event is cancelled or resolved no step changes its status; the only
\* status changes are active to cancelled and active to resolved.
C4_TerminalStatusNeverChanges ==
    [][\A i \in 1..Len(sosEvents) :
          sosEvents[i].status # "active" => sosEvents'[i].status = sosEvents[i].status]_vars

\* C5: of the trigger calls that present one idempotencyKey and reach the insert, every
\* one ends with a success carrying the id of the single event stored under that key;
\* the loser of the insert race does not surface the uniqueness violation.
C5_RaceLoserRereads ==
    \A p \in Procs :
        ( /\ sosPc[p] = "done"
          /\ sosCall[p].op = "trigger"
          /\ sosCall[p].key # NoKey
          /\ sosResult[p] # fail(SosAlreadyActiveError)
          /\ sosResult[p] # threw(AuditWriteError) )
        => /\ sosResult[p].kind = "ok"
           /\ EventsWithKey(sosCall[p].key) = {sosResult[p].event.id}

\* C6: a trigger call whose idempotencyKey already has a stored event, of any status,
\* returns that stored event as it is and creates no row; no two stored events ever
\* carry the same key.
C6_IdempotentHitReturnsStored ==
    [][ /\ \A p \in Procs :
            ( /\ sosPc[p] = "t_key"
              /\ sosPc'[p] # "t_key"
              /\ EventsWithKey(sosCall[p].key) # {} )
            => /\ sosPc'[p] = "done"
               /\ \E i \in EventsWithKey(sosCall[p].key) : sosResult'[p] = ok(sosEvents[i])
               /\ sosEvents' = sosEvents
        /\ \A k \in Keys :
              Cardinality({i \in 1..Len(sosEvents') : sosEvents'[i].idempotencyKey = k}) <= 1
      ]_vars

C6_Witness ==
    \E p \in Procs :
        /\ sosPc[p] = "done"
        /\ sosCall[p].op = "trigger"
        /\ sosCall[p].key # NoKey
        /\ sosCall[p].event = NoEvent
        /\ sosResult[p].kind = "ok"
        /\ sosResult[p].event.status \in {"cancelled", "resolved"}
        /\ sosResult[p].event = sosEvents[sosResult[p].event.id]

\* C7: a trigger call that finds an active event of its subject, having found no event
\* under its idempotencyKey, fails with SOS_ALREADY_ACTIVE and leaves the event table as
\* it was; a call that ended so has created nothing.
C7_AlreadyActiveConflict ==
    [][\A p \in Procs :
          /\ ( /\ sosPc[p] = "t_active"
               /\ sosPc'[p] # "t_active"
               /\ ActiveEventsOf(sosCall[p].userId) # {} )
             => /\ sosPc'[p] = "done"
                /\ sosResult'[p] = fail(SosAlreadyActiveError)
                /\ sosEvents' = sosEvents
          /\ sosResult'[p] = fail(SosAlreadyActiveError) => sosCall'[p].event = NoEvent
      ]_vars

C7_Witness ==
    \E p \in Procs :
        /\ sosPc[p] = "done"
        /\ sosCall[p].op = "trigger"
        /\ sosResult[p] = fail(SosAlreadyActiveError)
        /\ ActiveEventsOf(sosCall[p].userId) # {}

\* C8: a cancel or resolve call that finds no active event of its subject returns the
\* SOS_NOT_ACTIVE failure as a value, not a thrown error, and leaves every stored event
\* as it was.
C8_NotActiveGuard ==
    [][\A p \in Procs :
          /\ ( /\ sosPc[p] = "e_find"
               /\ sosPc'[p] # "e_find"
               /\ ActiveEventsOf(sosCall[p].userId) = {} )
             => /\ sosPc'[p] = "done"
                /\ sosResult'[p] = fail(SosNotActiveError)
                /\ sosEvents' = sosEvents
          /\ sosResult'[p] = fail(SosNotActiveError) => sosCall'[p].event = NoEvent
      ]_vars

C8_Witness ==
    \E p \in Procs :
        /\ sosPc[p] = "done"
        /\ sosCall[p].op \in {"cancel", "resolve"}
        /\ sosResult[p] = fail(SosNotActiveError)
        /\ \E i \in 1..Len(sosEvents) :
              /\ sosEvents[i].userId = sosCall[p].userId
              /\ sosEvents[i].status \in {"cancelled", "resolved"}

\* C9: the delivery step of trigger, cancel and resolve has the same effect on the
\* stored events, the audit records and the call's course whether the delivery fails
\* or not: trigger returns the created event, cancel and resolve go on to the audit
\* write and then return the updated event.
C9_DeliveryFailureInvisible ==
    [][\A p \in Procs :
          /\ (sosPc[p] = "t_notify" /\ sosPc'[p] # "t_notify")
             => /\ sosPc'[p] = "done"
                /\ sosResult'[p] = ok(sosCall[p].event)
                /\ sosCall'[p].event = sosCall[p].event
                /\ sosEvents' = sosEvents /\ auditLogs' = auditLogs
          /\ (sosPc[p] = "e_notify" /\ sosPc'[p] # "e_notify")
             => /\ sosPc'[p] = "e_audit"
                /\ sosCall'[p].event = sosCall[p].event
                /\ sosEvents' = sosEvents /\ auditLogs' = auditLogs
          /\ (sosPc[p] = "e_audit" /\ sosPc'[p] = "done" /\ auditLogs' # auditLogs)
             => sosResult'[p] = ok(sosCall[p].event)
      ]_vars

C9_Witness ==
    \E p \in Procs, q \in Procs :
        /\ sosPc[p] = "done" /\ sosPc[q] = "done"
        /\ sosCall[p].op = "trigger" /\ sosCall[q].op \in {"cancel", "resolve"}
        /\ sosCall[p].delivery = "failed" /\ sosCall[q].delivery = "failed"
        /\ sosResult[p].kind = "ok" /\ sosResult[q].kind = "ok"
        /\ sosResult[q].event = sosEvents[sosResult[q].event.id]

\* the users behind the contacts of an event's notifiedContacts snapshot
snapshotRecipients(event) ==
    recipientIds({c \in InitContacts : c.id \in event.notifiedContacts})

\* C14: the end notification of a cancel or resolve whose delivery does not fail reaches
\* every recipient of the event's notifiedContacts snapshot, whatever has happened to
\* the subject's contacts since the trigger.
C14_EndNotifiesSnapshot ==
    [][\A p \in Procs :
          ( /\ sosPc[p] = "e_notify"
            /\ sosPc'[p] = "e_audit"
            /\ sosCall'[p].delivery # "failed" )
          => snapshotRecipients(sosCall[p].event) \subseteq sosCall'[p].sentTo
      ]_vars

IsPrefix(a, b) == Len(a) <= Len(b) /\ SubSeq(b, 1, Len(a)) = a

\* C15: in every step the embedded audit log of every stored event before the step is
\* a prefix of its audit log after the step.
C15_AuditLogAppendOnly ==
    [][\A i \in 1..Len(sosEvents) :
          IsPrefix(sosEvents[i].auditLog, sosEvents'[i].auditLog)
      ]_vars

auditActions(log) == [i \in 1..Len(log) |-> log[i].action]

\* C16: a trigger call that found neither an event with its key nor an active event of
\* its subject stores, at its create, exactly one new event: active, with the call's
\* subject, coordinates and key, the audit log [TRIGGERED] and the primary contacts the
\* call read; and the call returns that event.
C16_TriggerStoresOneEvent ==
    [][\A p \in Procs :
          /\ (sosPc[p] = "t_create" /\ sosPc'[p] # "t_create")
             => /\ Len(sosEvents') = Len(sosEvents) + 1
                /\ SubSeq(sosEvents', 1, Len(sosEvents)) = sosEvents
                /\ LET e == sosEvents'[Len(sosEvents')] IN
                      /\ e.status = "active"
                      /\ e.userId = sosCall[p].userId
                      /\ e.latitude = sosCall[p].lat /\ e.longitude = sosCall[p].lng
                      /\ e.idempotencyKey = sosCall[p].key
                      /\ auditActions(e.auditLog) = <<"TRIGGERED">>
                      /\ e.notifiedContacts = sosCall[p].notified
                      /\ sosCall'[p].event = e
          /\ (sosPc[p] = "t_notify" /\ sosPc'[p] = "done")
             => sosResult'[p] = ok(sosCall[p].event)
      ]_vars

trailOf(status) ==
    CASE status = "active" -> <<"TRIGGERED">>
      [] status = "cancelled" -> <<"TRIGGERED", "CANCELLED">>
      [] OTHER -> <<"TRIGGERED", "RESOLVED">>

\* C17: every event the history of a user returns carries the audit log that goes with
\* its status: [TRIGGERED] when active, [TRIGGERED, CANCELLED] when cancelled,
\* [TRIGGERED, RESOLVED] when resolved.
C17_TrailMatchesStatus ==
    \A u \in Users :
        \A e \in getSosHistory(sosEvents, u) : auditActions(e.auditLog) = trailOf(e.status)

\* C22: a call has emitted a notification only when the row it wrote is stored (for
\* cancel and resolve: stored as no longer active); a call that has ended in a failure,
\* and a call that has ended without writing an event (an idempotent hit among them),
\* has emitted none.
C22_NotifyAfterWrite ==
    \A p \in Procs :
        /\ sosCall[p].delivery = "emitted"
           => /\ sosCall[p].event.id \in EventIds(sosEvents)
              /\ sosCall[p].op \in {"cancel", "resolve"}
                 => sosEvents[sosCall[p].event.id].status # "active"
        /\ (sosPc[p] = "done" /\ sosResult[p].kind # "ok")
           => sosCall[p].delivery # "emitted"
        /\ (sosPc[p] = "done" /\ sosCall[p].event = NoEvent)
           => sosCall[p].delivery # "emitted"

----------------------------------------------------------------------------
(* The claims about the refresh-token rotation, checked under AuthSpec and ClientSpec *)

\* C2: two rotate calls that both read the same stored, non-revoked, unexpired row
\* never both return a new token pair.
C2_NoDoubleRotation ==
    \A p \in Procs, q \in Procs :
        ( /\ p # q
          /\ authPc[p] = "done" /\ authPc[q] = "done"
          /\ authCall[p].token = authCall[q].token
          /\ authCall[p].stored.id # 0
          /\ authCall[p].stored.id = authCall[q].stored.id
          /\ authResult[p].kind = "ok" )
        => authResult[q].kind # "ok"

\* C3: a rotate call that presents a credential an earlier rotate has already succeeded
\* on fails, and when it ends every stored token of that credential's family is revoked.
C3_ReplayRevokesFamily ==
    [][\A p \in Procs :
          ( /\ authCall[p].op = "rotate"
            /\ authCall[p].replay
            /\ authPc[p] # "done"
            /\ authPc'[p] = "done" )
          => /\ authResult'[p].kind # "ok"
             /\ \A r \in refreshTokens' :
                   r.family = authCall[p].token.family => r.revoked
      ]_vars

\* C10: no rotate call ends with the presented token revoked by that call and no
\* successor stored: a call that has revoked the presented row returns the new pair.
C10_RotateAllOrNothing ==
    \A p \in Procs :
        (authPc[p] = "done" /\ authCall[p].didRevoke) => authResult[p].kind = "ok"

NonRevokedOfFamily(f) == {r \in refreshTokens : r.family = f /\ ~r.revoked}

\* C11: when every family's holder presents only the family's newest credential, one
\* refresh at a time, each family has at most one stored non-revoked token.
C11_OneLiveTokenPerFamily ==
    \A f \in Families : Cardinality(NonRevokedOfFamily(f)) <= 1

\* a rotation has gone through: the family holds the revoked predecessor and its
\* non-revoked successor
C11_Witness ==
    \E r \in refreshTokens, n \in refreshTokens :
        /\ r.family = n.family
        /\ r.revoked /\ ~n.revoked
        /\ r.token.iat < n.token.iat
        /\ \E p \in Procs : authPc[p] = "done" /\ authResult[p] = authOk(n.token)

\* C12: when a rotate call that was in flight during a logout of its subject ends, and
\* no other such call is still in flight, the family of the presented credential holds
\* no non-revoked token.
C12_LogoutLeavesNoLiveToken ==
    [][\A p \in Procs :
          ( /\ authPc[p] # "done"
            /\ authPc'[p] = "done"
            /\ authCall'[p].logoutSeen
            /\ \A q \in Procs \ {p} :
                  authCall'[q].logoutSeen => authPc'[q] \in {"idle", "done"} )
          => \A r \in refreshTokens' :
                r.family = authCall'[p].token.family => r.revoked
      ]_vars

\* the credentials a rotate at second t would still accept: stored, non-revoked,
\* not past their expiry
Rotatable(rows, t) ==
    {r.token : r \in {x \in rows : ~x.revoked /\ ~(x.expiresAt < t) /\ t < x.token.exp}}

\* C13: a sweep changes the outcome of no rotate that follows it: for every credential,
\* a rotate right after the sweep has the result it would have had right before it,
\* and leaves the same credentials rotatable.
C13_SweepChangesNoOutcome ==
    [][( /\ refreshTokens' # refreshTokens
         /\ refreshTokens' = deleteExpired(refreshTokens, now) )
       => \A tok \in issued :
             LET before == refreshTokensAlone(refreshTokens, issued, nextTokenId, tok, now)
                 after == refreshTokensAlone(refreshTokens', issued, nextTokenId, tok, now)
             IN /\ after.code = before.code
                /\ Rotatable(after.rows, now) = Rotatable(before.rows, now)
      ]_vars

\* C18: when a rotate call returns a new pair, the returned refresh credential is stored
\* non-revoked under the family and the subject of the presented one, and the
\* presented credential is not stored non-revoked.
C18_RotateReturnsSuccessor ==
    [][\A p \in Procs :
          ( /\ authPc[p] # "done"
            /\ authPc'[p] = "done"
            /\ authResult'[p].kind = "ok" )
          => /\ \E r \in refreshTokens' :
                   /\ r.token = authResult'[p].token
                   /\ ~r.revoked
                   /\ r.family = authCall[p].token.family
                   /\ r.userId = authCall[p].token.sub
             /\ \A r \in refreshTokens' : r.token = authCall[p].token => r.revoked
      ]_vars

\* C19: a rotate call that presents a signed credential with no stored record ends with
\* the Revoked error, at its verification or at its lookup, and leaves the stored
\* tokens as they are.
C19_AbsentRecordIsRevoked ==
    [][\A p \in Procs :
          /\ ( /\ authPc[p] = "idle"
               /\ authPc'[p] = "done"
               /\ authCall'[p].token \in issued
               /\ findByToken(refreshTokens, authCall'[p].token) = {} )
             => /\ authResult'[p].code = RefreshTokenRevokedError
                /\ refreshTokens' = refreshTokens
          /\ ( /\ authPc[p] = "r_find"
               /\ authPc'[p] # "r_find"
               /\ findByToken(refreshTokens, authCall[p].token) = {} )
             => /\ authPc'[p] = "done"
                /\ authResult'[p].code = RefreshTokenRevokedError
                /\ refreshTokens' = refreshTokens
      ]_vars

\* C20: a rotate call that meets a stored, non-revoked row of its credential whose
\* expiresAt has passed ends with the Expired error, at its verification or at its
\* check of the row, and leaves the stored tokens as they are.
C20_ExpiredIsExpired ==
    [][\A p \in Procs :
          /\ ( /\ authPc[p] = "idle"
               /\ authPc'[p] # "idle"
               /\ \E r \in findByToken(refreshTokens, authCall'[p].token) :
                     ~r.revoked /\ r.expiresAt < now )
             => /\ authPc'[p] = "done"
                /\ authResult'[p].code = TokenExpiredError
                /\ refreshTokens' = refreshTokens
          /\ ( /\ authPc[p] = "r_find"
               /\ authPc'[p] # "r_find"
               /\ \E r \in findByToken(refreshTokens, authCall[p].token) :
                     ~r.revoked /\ r.expiresAt < now )
             => /\ authPc'[p] = "done"
                /\ authResult'[p].code = TokenExpiredError
                /\ refreshTokens' = refreshTokens
      ]_vars

\* C21: a rotate call that has failed on a malformed, unknown, revoked or expired
\* credential carries retryable = false.
C21_RotateFailureNotRetryable ==
    \A p \in Procs :
        ( /\ authPc[p] = "done"
          /\ authCall[p].op = "rotate"
          /\ authResult[p].code \in
                {TokenInvalidError, TokenExpiredError, RefreshTokenRevokedError} )
        => ~retryable(authResult[p].code)

\* C23: no step removes a stored SOS event: the ids of the stored rows only grow.
C23_EventsNeverRemoved ==
    [][EventIds(sosEvents) \subseteq EventIds(sosEvents')]_vars

\* C24: cancel and resolve change only status, cancelledAt or resolvedAt, and the audit
\* log of the event the call targets: in every step every stored event keeps its id,
\* userId, latitude, longitude, triggeredAt, idempotencyKey and notifiedContacts, and
\* an event changes only in the update of a cancel or resolve call of its user that
\* targets it, which changes no other event.
sameSnapshot(a, b) ==
    /\ b.id = a.id
    /\ b.userId = a.userId
    /\ b.latitude = a.latitude
    /\ b.longitude = a.longitude
    /\ b.triggeredAt = a.triggeredAt
    /\ b.idempotencyKey = a.idempotencyKey
    /\ b.notifiedContacts = a.notifiedContacts

C24_EndChangesOnlyItsFields ==
    [][ \A i \in EventIds(sosEvents) :
          /\ i \in EventIds(sosEvents')
          /\ sameSnapshot(sosEvents[i], sosEvents'[i])
          /\ sosEvents'[i] # sosEvents[i]
             => \E p \in Procs :
                   /\ sosPc[p] = "e_update"
                   /\ sosPc'[p] = "e_notify"
                   /\ sosCall[p].target = i
                   /\ sosCall[p].userId = sosEvents[i].userId
                   /\ sosCall[p].op = "cancel"
                      => sosEvents'[i].resolvedAt = sosEvents[i].resolvedAt
                   /\ sosCall[p].op = "resolve"
                      => sosEvents'[i].cancelledAt = sosEvents[i].cancelledAt
                   /\ \A j \in EventIds(sosEvents) \ {i} : sosEvents'[j] = sosEvents[j]
      ]_vars

\* a cancel or resolve has just updated its event, later than the event's trigger,
\* while another event is stored
C24_Witness ==
    \E p \in Procs :
        /\ sosPc[p] = "e_notify"
        /\ sosCall[p].event.status \in {"cancelled", "resolved"}
        /\ sosEvents[sosCall[p].target] = sosCall[p].event
        /\ now > sosCall[p].event.triggeredAt
        /\ \E j \in EventIds(sosEvents) : j # sosCall[p].target

tokenIds(rows) == {r.id : r \in rows}

C26_SweepDeletesExactly ==
    [][ (tokenIds(refreshTokens') # tokenIds(refreshTokens)
            /\ tokenIds(refreshTokens') \subseteq tokenIds(refreshTokens))
        => refreshTokens' = {r \in refreshTokens : ~r.revoked /\ r.expiresAt >= now}
      ]_vars

\* a sweep has deleted the row of an issued credential, and a row that expires at this
\* moment and a later one are still stored
C26_Witness ==
    /\ \E tok \in issued : findByToken(refreshTokens, tok) = {}
    /\ \E r \in refreshTokens : ~r.revoked /\ r.expiresAt = now
    /\ \E r \in refreshTokens : ~r.revoked /\ r.expiresAt > now

\* C27: every issue stores exactly one new non-revoked refresh token under a family no
\* other stored token has, and changes no existing token.
C27_IssueStoresOneFreshToken ==
    [][ nextFamily' # nextFamily
        => \E r \in refreshTokens' :
              /\ r \notin refreshTokens
              /\ refreshTokens' = refreshTokens \cup {r}
              /\ ~r.revoked
              /\ \A o \in refreshTokens : o.family # r.family /\ o.id # r.id /\ o.token # r.token
      ]_vars

\* a second issue for a user who holds a live token of an earlier issue
C27_Witness ==
    /\ nextFamily = 3
    /\ \E r, o \in refreshTokens :
          /\ r.family = 2 /\ o.family = 1
          /\ r.userId = o.userId
          /\ ~r.revoked /\ ~o.revoked

\* C28: getSosHistory returns only events of the given user, from the most recent
\* triggeredAt to the oldest, at most HistoryLimit of them (the most recent ones), and
\* getActiveSos and getSosHistory leave every table as it is.
storedUnchanged ==
    /\ sosEvents' = sosEvents
    /\ auditLogs' = auditLogs
    /\ contacts' = contacts
    /\ users' = users
    /\ refreshTokens' = refreshTokens

eventsOf(events, userId) == {i \in EventIds(events) : events[i].userId = userId}

newestFirst(events, userId, take, rows) ==
    /\ Len(rows) <= take
    /\ Len(rows) = Cardinality({rows[k].id : k \in 1..Len(rows)})
    /\ \A k \in 1..Len(rows) :
          /\ rows[k].userId = userId
          /\ rows[k].id \in EventIds(events)
          /\ events[rows[k].id] = rows[k]
    /\ \A k \in 1..(Len(rows) - 1) : rows[k].triggeredAt >= rows[k + 1].triggeredAt
    /\ \A i \in eventsOf(events, userId) \ {rows[k].id : k \in 1..Len(rows)} :
          /\ Len(rows) = take
          /\ \A k \in 1..Len(rows) : events[i].triggeredAt <= rows[k].triggeredAt

C28_HistoryNewestFirst ==
    [][ /\ \A p \in Procs :
              ( /\ sosPc[p] = "idle"
                /\ sosPc'[p] = "done"
                /\ sosCall'[p].op \in {"getActive", "getHistory"} )
              => /\ storedUnchanged
                 /\ sosCall'[p].op = "getHistory"
                    => newestFirst(sosEvents, sosCall'[p].userId, HistoryLimit,
                                   sosResult'[p].rows)
        /\ \A u \in Users, take \in 0..MaxEvents :
              \A rows \in findAllByUserId(sosEvents, u, take) :
                 newestFirst(sosEvents, u, take, rows)
      ]_vars

\* getSosHistory has returned two events of the user, the later one first
C28_Witness ==
    \E p \in Procs :
        /\ sosPc[p] = "done"
        /\ sosCall[p].op = "getHistory"
        /\ Len(sosResult[p].rows) = 2
        /\ sosResult[p].rows[1].triggeredAt > sosResult[p].rows[2].triggeredAt

\* C29: getCircleSosStatus reports a user exactly when the user is the linked user of
\* one of the subject's contacts and has a stored event with status active, each entry
\* carrying that event's data, and the call leaves every table as it is.
linkedUserIds(cs, userId) ==
    {c.contactUserId : c \in {d \in cs : d.userId = userId /\ d.contactUserId # "none"}}

C30_TablesWrittenOnlyByOwners ==
    [][ /\ sosEvents' # sosEvents
           => \E p \in Procs :
                 /\ sosPc[p] \in {"t_create", "e_update"}
                 /\ sosPc'[p] # sosPc[p]
        /\ refreshTokens' # refreshTokens
           => \/ nextFamily' # nextFamily
              \/ \E p \in Procs : authPc[p] \in {"r_find", "r_breach", "r_revoke", "r_create"}
                                     /\ authPc'[p] # authPc[p]
              \/ \E u \in Users : refreshTokens' = revokeAllForUser(refreshTokens, u)
              \/ refreshTokens' = deleteExpired(refreshTokens, now)
      ]_vars

\* C31: every event a trigger call returns belongs to the caller: a finished trigger
\* call whose result carries an event carries an event of the call's own userId.
C31_TriggerReturnsOwnEvent ==
    \A p \in Procs :
        ( /\ sosPc[p] = "done"
          /\ sosCall[p].op = "trigger"
          /\ sosResult[p].kind = "ok" )
        => sosResult[p].event.userId = sosCall[p].userId

\* C32: in every stored event cancelledAt is set exactly when the status is cancelled
\* and resolvedAt exactly when it is resolved (so the two are never both set, and of a
\* cancel and a resolve racing on one event only one takes effect).
C32_EndStampMatchesStatus ==
    \A i \in EventIds(sosEvents) :
        /\ (sosEvents[i].cancelledAt # NoTime) <=> (sosEvents[i].status = "cancelled")
        /\ (sosEvents[i].resolvedAt # NoTime) <=> (sosEvents[i].status = "resolved")

\* C33: a trigger, cancel or resolve call that does not return success has created no
\* event and changed no event's status: a finished call whose result is a failure or
\* a thrown error holds no row that it inserted or updated.
C33_FailureWroteNothing ==
    \A p \in Procs :
        ( /\ sosPc[p] = "done"
          /\ sosCall[p].op \in {"trigger", "cancel", "resolve"}
          /\ sosResult[p].kind # "ok" )
        => sosCall[p].event = NoEvent

\* C34: rotate checks revoked before expired: a call that presents a credential whose
\* stored row is revoked and past its expiresAt does not end as an expiry failure, it
\* goes on to the row and its family.
C34_RevokedBeforeExpired ==
    [][ \A p \in Procs :
          ( /\ authPc[p] = "idle"
            /\ authCall'[p].op = "rotate"
            /\ \E r \in findByToken(refreshTokens, authCall'[p].token) :
                  r.revoked /\ r.expiresAt < now )
          => /\ authPc'[p] = "r_find"
             /\ authResult'[p].code # TokenExpiredError
      ]_vars

\* C35: breach revocation is confined to one family: the step in which rotate revokes
\* the family of a reused credential leaves every row of another family as it is (of
\* the same user or of another), and revokes the rows of that family and nothing else
\* of them.
C35_BreachConfinedToFamily ==
    [][ \A p \in Procs :
          ( /\ authPc[p] = "r_breach"
            /\ authPc'[p] # "r_breach" )
          => LET f == authCall[p].stored.family IN
                /\ \A r \in refreshTokens : r.family # f => r \in refreshTokens'
                /\ \A r \in refreshTokens :
                      r.family = f => [r EXCEPT !.revoked = TRUE] \in refreshTokens'
                /\ Cardinality(refreshTokens') = Cardinality(refreshTokens)
      ]_vars

\* a rotate call has taken the breach path while the same user holds a live token of
\* another family
C35_Witness ==
    \E p \in Procs :
        /\ authPc[p] = "done"
        /\ authCall[p].op = "rotate"
        /\ authCall[p].stored.revoked
        /\ authResult[p].code = RefreshTokenRevokedError
        /\ \E r \in refreshTokens :
              /\ r.family # authCall[p].stored.family
              /\ r.userId = authCall[p].stored.userId
              /\ ~r.revoked

\* C36: a client that keeps to the protocol is never locked out: when only the newest
\* credential of a family is presented, one call at a time, and nobody logs out, no
\* rotate call takes the breach path, and every rotate call that ends before the
\* presented credential expires ends in success, sweeps or not.
C36_LoyalClientNeverLockedOut ==
    \A p \in Procs :
        /\ authPc[p] # "r_breach"
        /\ ( /\ authPc[p] = "done"
             /\ authCall[p].op = "rotate"
             /\ now < authCall[p].token.exp )
           => authResult[p].kind = "ok"

\* C37: the external audit log mirrors the event lifecycle: every stored event that
\* no call is working on has exactly one
\* SOS_TRIGGERED record and at most one terminal record (SOS_CANCELLED, SOS_RESOLVED),
\* which is there exactly when the event is not active and matches its status.
recordsOf(id, action) ==
    {k \in 1..Len(auditLogs) : auditLogs[k].resourceId = id /\ auditLogs[k].action = action}

terminalAction(status) ==
    CASE status = "cancelled" -> {"SOS_CANCELLED"}
      [] status = "resolved" -> {"SOS_RESOLVED"}
      [] OTHER -> {}

eventAtRest(i) ==
    \A p \in Procs : sosPc[p] \in {"idle", "done"} \/ sosCall[p].event.id # i

C37_AuditMirrorsLifecycle ==
    \A i \in EventIds(sosEvents) :
        eventAtRest(i)
        => /\ Cardinality(recordsOf(i, "SOS_TRIGGERED")) = 1
           /\ {auditLogs[k].action : k \in recordsOf(i, "SOS_CANCELLED") \cup
                                              recordsOf(i, "SOS_RESOLVED")}
                 = terminalAction(sosEvents[i].status)
           /\ Cardinality(recordsOf(i, "SOS_CANCELLED") \cup recordsOf(i, "SOS_RESOLVED")) <= 1

\* C38: an SOS event is claimed by at most one security responder: a claimAlert call
\* that ends on an event which is not active, or which has a responder already, fails
\* and leaves the event's responder and every personnel status as they were
C38_ClaimedByAtMostOne ==
    [][ \A s \in Personnel :
          ( /\ claimPc[s] # "done"
            /\ claimPc'[s] = "done"
            /\ claimCall'[s].alert \in EventIds(sosEvents)
            /\ \/ sosEvents[claimCall'[s].alert].status # "active"
               \/ sosEvents[claimCall'[s].alert].securityResponderId # "none" )
          => /\ claimCall'[s].result # "ok"
             /\ sosEvents'[claimCall'[s].alert].securityResponderId
                   = sosEvents[claimCall'[s].alert].securityResponderId
             /\ securityPersonnel' = securityPersonnel ]_vars

\* C39: verifyOtp succeeds exactly on the code sendOtp issued last for the identifier,
\* while that code has not expired and has not been verified before; after a success,
\* and after an attempt made past the expiry, the identifier has no code stored
C39_CodeIsSingleUse ==
    [][ ( /\ otpResult = NoVerify
          /\ otpResult' # NoVerify )
        => LET id == otpResult'.identifier
               sent == otpSent[id]
           IN  /\ otpResult'.success
                    <=> ( /\ sent # NoSent
                          /\ ~sent.spent
                          /\ otpResult'.code = sent.code
                          /\ now <= sent.expiresAt )
               /\ ( \/ otpResult'.success
                    \/ (sent # NoSent /\ now > sent.expiresAt) )
                  => otpStore'[id] = NoOtp ]_vars

\* C39 witness: the code issued last, still unexpired, is refused because an earlier
\* verification has used it up
C39_Witness ==
    /\ otpResult # NoVerify
    /\ ~otpResult.success
    /\ otpSent[otpResult.identifier].spent
    /\ otpResult.code = otpSent[otpResult.identifier].code
    /\ now <= otpSent[otpResult.identifier].expiresAt

====
